---- MODULE Spec2Model ----
(***************************************************************************)
(* The two Baize skills, src/skills/file/main.py and                       *)
(* src/skills/brave-search/main.py, as one state machine.  A host starts   *)
(* one process per invocation; a process reads its parameters, performs    *)
(* one operation on the host filesystem or one HTTP request, prints JSON   *)
(* envelopes on standard output and exits with a status.                   *)
(*                                                                         *)
(* The filesystem is one chain of path components below the working        *)
(* directory: depth 1 is "c", depth 2 is "c/c", and so on.  Every          *)
(* component has a non-ASCII name, so that each path has two spellings in  *)
(* the JSON input: the plain one, and one whose non-ASCII bytes are        *)
(* written as lone surrogates (\udcXX).  Both name the same file           *)
(* (os.fsencode maps both to the same bytes); only the plain one can be    *)
(* written to a strict UTF-8 standard output.                              *)
(*                                                                         *)
(* The messages of the source are Chinese; the model writes them in        *)
(* English, one string per message of the source.                          *)
(***************************************************************************)
EXTENDS Integers, Sequences, FiniteSets, TLC

\* Bounds of the model.
MaxDepth == 3
MaxResults == 2

(***************************************************************************)
(* Text, bytes and codecs                                                  *)
(***************************************************************************)

\* The characters of a content string are CR, LF and one non-ASCII character,
\* written "\r", "\n" and "U+00E9".

RECURSIVE SeqsUpTo(_, _)
SeqsUpTo(S, n) ==
  IF n = 0 THEN {<<>>}
  ELSE LET shorter == SeqsUpTo(S, n - 1)
       IN  shorter \cup {Append(s, c) : s \in {t \in shorter : Len(t) = n - 1}, c \in S}

\* The content strings of the model: the empty string, a line feed, a carriage
\* return, CR-LF, a non-ASCII character, and a non-ASCII character and a CR.
Contents ==
  {<<>>, <<"\n">>, <<"\r">>, <<"\r", "\n">>, <<"U+00E9">>, <<"U+00E9", "\r">>}

\* dict.get on a key that is not there, for a parameter that is a string.
None == "<None>"

Encodings == {"utf-8", "ascii", "bogus"}
KnownCodecs == {"utf-8", "ascii"}

\* The UTF-8 bytes of one character.
Utf8(ch) ==
  CASE ch = "\r" -> <<13>>
    [] ch = "\n" -> <<10>>
    [] ch = "U+00E9" -> <<195, 169>>

IsAscii(ch) == ch \in {"\r", "\n"}

RECURSIVE EncodeChars(_)
EncodeChars(s) == IF s = <<>> THEN <<>> ELSE Utf8(Head(s)) \o EncodeChars(Tail(s))

\* str.encode(encoding): the bytes, or the exception.
Encode(s, enc) ==
  IF enc \notin KnownCodecs
    THEN [ok |-> FALSE, bytes |-> <<>>, err |-> "unknown encoding"]
  ELSE IF enc = "ascii" /\ \E i \in 1..Len(s) : ~IsAscii(s[i])
    THEN [ok |-> FALSE, bytes |-> <<>>, err |-> "codec can't encode character"]
  ELSE [ok |-> TRUE, bytes |-> EncodeChars(s), err |-> ""]

RECURSIVE DecodeBytes(_, _)
\* bytes.decode(encoding) of a known codec, strict: the characters, or <<"bad">>
\* in front when a byte cannot be decoded.
DecodeBytes(b, enc) ==
  IF b = <<>> THEN <<>>
  ELSE IF Head(b) = 13 THEN <<"\r">> \o DecodeBytes(Tail(b), enc)
  ELSE IF Head(b) = 10 THEN <<"\n">> \o DecodeBytes(Tail(b), enc)
  ELSE IF enc = "utf-8" /\ Head(b) = 195 /\ Len(b) >= 2 /\ b[2] = 169
    THEN <<"U+00E9">> \o DecodeBytes(Tail(Tail(b)), enc)
  ELSE <<"bad">>

Decode(b, enc) ==
  IF enc \notin KnownCodecs
    THEN [ok |-> FALSE, chars |-> <<>>, err |-> "unknown encoding"]
  ELSE LET d == DecodeBytes(b, enc)
       IN  IF \E i \in 1..Len(d) : d[i] = "bad"
             THEN [ok |-> FALSE, chars |-> <<>>, err |-> "codec can't decode byte"]
             ELSE [ok |-> TRUE, chars |-> d, err |-> ""]

RECURSIVE UniversalNewlines(_)
\* Text mode with newline=None, reading: "\r\n" and "\r" become "\n".
UniversalNewlines(s) ==
  IF s = <<>> THEN <<>>
  ELSE IF Head(s) = "\r"
    THEN IF Len(s) >= 2 /\ s[2] = "\n"
           THEN <<"\n">> \o UniversalNewlines(Tail(Tail(s)))
           ELSE <<"\n">> \o UniversalNewlines(Tail(s))
  ELSE <<Head(s)>> \o UniversalNewlines(Tail(s))

\* Text mode with newline=None, writing: "\n" becomes os.linesep, which is
\* "\n" on the POSIX hosts the model describes.
WriteNewlines(s) == s

(***************************************************************************)
(* The filesystem                                                          *)
(***************************************************************************)

Depths == 1..MaxDepth

Absent == [kind |-> "absent", data |-> <<>>]
Dir == [kind |-> "dir", data |-> <<>>]
\* A directory of mode 000: no entry below it can be looked up or created.
LockedDir == [kind |-> "lockeddir", data |-> <<>>]
File(b) == [kind |-> "file", data |-> b]

\* What a file can hold when the host starts: any content written as UTF-8,
\* or a byte string that no codec of the model decodes.
InitialData == {EncodeChars(c) : c \in Contents} \cup {<<169>>}

Entries == {Absent, Dir, LockedDir} \cup {File(b) : b \in InitialData}

\* An entry exists only inside a directory.
WellFormed(f) ==
  \A k \in Depths :
    (k > 1 /\ f[k].kind # "absent") => f[k - 1].kind \in {"dir", "lockeddir"}

RECURSIVE Stat(_, _)
\* os.stat of the path of depth k (0 is the working directory): "ok" or the errno.
Stat(f, k) ==
  IF k = 0 THEN "ok"
  ELSE LET up == Stat(f, k - 1)
       IN  IF up # "ok" THEN up
           ELSE IF k > 1 /\ f[k - 1].kind = "file" THEN "ENOTDIR"
           ELSE IF k > 1 /\ f[k - 1].kind = "lockeddir" THEN "EACCES"
           ELSE IF f[k].kind = "absent" THEN "ENOENT"
           ELSE "ok"

\* The path is there, whatever a lookup from this process says.
TrulyExists(f, k) == f[k].kind # "absent"

(***************************************************************************)
(* Values of the parameters                                                *)
(***************************************************************************)

\* A path parameter: the path of a depth of the chain in one of its two
\* spellings, the empty string, a JSON number, or None (key not given).
PathNode(k, form) == [depth |-> k, form |-> form]
EmptyPath == [depth |-> 0, form |-> "empty"]
NotStrPath == [depth |-> 0, form |-> "notstr"]
NonePath == [depth |-> 0, form |-> "none"]

\* A content parameter: a string, a JSON number, or the key not given.
StrContent(s) == [type |-> "str", chars |-> s]
IntContent == [type |-> "int", chars |-> <<>>]
NoContent == [type |-> "none", chars |-> <<>>]

\* An encoding parameter given as JSON null.
NullEncoding == "<null>"

\* An unknown action whose text holds a lone surrogate (JSON "frob\ud800").
SurrogateAction == "frob<U+D800>"

\* The pieces of a printed string: the literal part and the value formatted in.
PathArg(p) == [t |-> "path", path |-> p, str |-> "", chars |-> <<>>, num |-> 0]
StrArg(s) == [t |-> "str", path |-> NonePath, str |-> s, chars |-> <<>>, num |-> 0]
CharsArg(c) == [t |-> "chars", path |-> NonePath, str |-> "", chars |-> c, num |-> 0]
NumArg(n) == [t |-> "num", path |-> NonePath, str |-> "", chars |-> <<>>, num |-> n]
\* An HTTP status code and the body of the answer, as "{code} - {body}".
HttpArg(code, body) == [t |-> "http", path |-> NonePath, str |-> body, chars |-> <<>>,
                        num |-> code]
Text(fmt, arg) == [fmt |-> fmt, arg |-> arg]
\* str(e) of an exception whose text is s.
Str(s) == Text("", StrArg(s))
NoExc == Str("")

\* The string has at least one character.
NonEmptyText(t) ==
  \/ t.fmt # ""
  \/ t.arg.t = "path" /\ t.arg.path.form \notin {"empty", "none"}
  \/ t.arg.t = "str" /\ t.arg.str # ""
  \/ t.arg.t = "chars" /\ t.arg.chars # <<>>
  \/ t.arg.t \in {"num", "http"}

\* A strict UTF-8 standard output can encode the string.
PrintableArg(a) ==
  /\ a.t = "path" => a.path.form # "escaped"
  /\ a.t = "str" => a.str # SurrogateAction

(***************************************************************************)
(* pathlib, as the file skill uses it                                      *)
(***************************************************************************)

\* How Path.exists treats an errno it does not take for "not there" (EACCES):
\* it raises up to Python 3.13, and answers False where it is os.path.exists.
LookupVariants == {"raise", "false"}

\* Path.exists() that takes only ENOENT for "not there" and raises on ENOTDIR.
Path_exists_RaiseNotDir(f, k, rt) ==
  LET st == Stat(f, k)
  IN  IF st = "ok" THEN [raised |-> FALSE, value |-> TRUE, err |-> ""]
      ELSE IF st = "ENOENT" \/ (st = "EACCES" /\ rt = "false")
        THEN [raised |-> FALSE, value |-> FALSE, err |-> ""]
      ELSE [raised |-> TRUE, value |-> FALSE, err |-> "[Errno 20] Not a directory"]

\* Path.exists()
Path_exists(f, k, rt) ==
  LET st == Stat(f, k)
  IN  IF st = "ok" THEN [raised |-> FALSE, value |-> TRUE, err |-> ""]
      ELSE IF st \in {"ENOENT", "ENOTDIR"} \/ rt = "false"
        THEN [raised |-> FALSE, value |-> FALSE, err |-> ""]
      ELSE [raised |-> TRUE, value |-> FALSE, err |-> "[Errno 13] Permission denied"]

RECURSIVE Path_mkdir(_, _)
\* Path.mkdir(parents=True, exist_ok=True) on the directory of depth p.
Path_mkdir(f, p) ==
  IF p = 0 THEN [ok |-> TRUE, fs |-> f, err |-> ""]
  ELSE
    LET up == Stat(f, p - 1)
    IN  IF up = "ENOENT"
          THEN LET made == Path_mkdir(f, p - 1)
               IN  IF made.ok
                     THEN [ok |-> TRUE, fs |-> [made.fs EXCEPT ![p] = Dir], err |-> ""]
                     ELSE made
        ELSE IF up = "ENOTDIR" \/ (p > 1 /\ f[p - 1].kind = "file")
          THEN [ok |-> FALSE, fs |-> f, err |-> "[Errno 20] Not a directory"]
        ELSE IF up = "EACCES" \/ (p > 1 /\ f[p - 1].kind = "lockeddir")
          THEN [ok |-> FALSE, fs |-> f, err |-> "[Errno 13] Permission denied"]
        ELSE IF f[p].kind = "absent"
          THEN [ok |-> TRUE, fs |-> [f EXCEPT ![p] = Dir], err |-> ""]
        ELSE IF f[p].kind = "file"
          THEN [ok |-> FALSE, fs |-> f, err |-> "[Errno 17] File exists"]
        ELSE [ok |-> TRUE, fs |-> f, err |-> ""]

\* A write_text that opens the file before it looks at the type of the data.
Path_write_text_OpenFirst(f, k, content, encoding) ==
  IF k > 1 /\ f[k - 1].kind = "lockeddir"
    THEN [ok |-> FALSE, fs |-> f, err |-> "[Errno 13] Permission denied"]
  ELSE IF f[k].kind \in {"dir", "lockeddir"}
    THEN [ok |-> FALSE, fs |-> f, err |-> "[Errno 21] Is a directory"]
  ELSE
    LET opened == [f EXCEPT ![k] = File(<<>>)]
        codec == IF encoding = NullEncoding THEN "utf-8" ELSE encoding
        enc == Encode(WriteNewlines(content.chars), codec)
    IN  IF content.type # "str"
          THEN [ok |-> FALSE, fs |-> opened, err |-> "data must be str, not int"]
        ELSE IF ~enc.ok
          THEN [ok |-> FALSE, fs |-> opened, err |-> enc.err]
          ELSE [ok |-> TRUE, fs |-> [f EXCEPT ![k] = File(enc.bytes)], err |-> ""]

\* Path.write_text(data, encoding=encoding), the parent directory being there.
Path_write_text(f, k, content, encoding) ==
  IF content.type # "str"
    THEN [ok |-> FALSE, fs |-> f, err |-> "data must be str, not int"]
  ELSE IF k > 1 /\ f[k - 1].kind = "lockeddir"
    THEN [ok |-> FALSE, fs |-> f, err |-> "[Errno 13] Permission denied"]
  ELSE IF f[k].kind \in {"dir", "lockeddir"}
    THEN [ok |-> FALSE, fs |-> f, err |-> "[Errno 21] Is a directory"]
  ELSE
    \* open(path, 'w') has created or truncated the file from here on
    LET opened == [f EXCEPT ![k] = File(<<>>)]
        codec == IF encoding = NullEncoding THEN "utf-8" ELSE encoding
        enc == Encode(WriteNewlines(content.chars), codec)
    IN  IF ~enc.ok
          THEN [ok |-> FALSE, fs |-> opened, err |-> enc.err]
          ELSE [ok |-> TRUE, fs |-> [f EXCEPT ![k] = File(enc.bytes)], err |-> ""]

\* Path.read_text(encoding=encoding) of a path that os.stat finds.
Path_read_text(f, k, encoding) ==
  IF f[k].kind = "lockeddir"
    THEN [ok |-> FALSE, chars |-> <<>>, err |-> "[Errno 13] Permission denied"]
  ELSE IF f[k].kind = "dir"
    THEN [ok |-> FALSE, chars |-> <<>>, err |-> "[Errno 21] Is a directory"]
  ELSE
    LET codec == IF encoding = NullEncoding THEN "utf-8" ELSE encoding
        dec == Decode(f[k].data, codec)
    IN  IF ~dec.ok THEN dec
        ELSE [ok |-> TRUE, chars |-> UniversalNewlines(dec.chars), err |-> ""]

\* An unlink that removes nothing and raises nothing.
Path_unlink_Noop(f, k) == [ok |-> TRUE, fs |-> f, err |-> ""]

\* Path.unlink() of a path that os.stat finds.
Path_unlink(f, k) ==
  IF f[k].kind \in {"dir", "lockeddir"}
    THEN [ok |-> FALSE, fs |-> f, err |-> "[Errno 21] Is a directory"]
    ELSE [ok |-> TRUE, fs |-> [f EXCEPT ![k] = Absent], err |-> ""]

\* len(content.encode(encoding)) of a string
EncodedLen(content, encoding) ==
  IF encoding = NullEncoding
    THEN [ok |-> FALSE, n |-> 0, err |-> "encode() argument 'encoding' must be str, not None"]
    ELSE LET enc == Encode(content.chars, encoding)
         IN  [ok |-> enc.ok, n |-> Len(enc.bytes), err |-> enc.err]

(***************************************************************************)
(* The file skill: the five operations                                     *)
(***************************************************************************)

\* What an operation hands back: the filesystem it leaves and its result.
Done(f, result) == [fs |-> f, result |-> result]
\* A failure result that carries its text as a message too.
Failure_WithMessage(prefix, err) ==
  [success |-> FALSE, error |-> Text(prefix, StrArg(err)),
   message |-> Text(prefix, StrArg(err))]

Failure(prefix, err) == [success |-> FALSE, error |-> Text(prefix, StrArg(err))]
PathTypeError == "expected str, bytes or os.PathLike object, not int"

read_file(f, file_path, encoding, rt) ==
  IF file_path.form = "notstr" THEN Done(f, Failure("read failed: ", PathTypeError))
  ELSE
    LET k == file_path.depth
        ex == Path_exists(f, k, rt)
    IN  IF ex.raised THEN Done(f, Failure("read failed: ", ex.err))
        ELSE IF ~ex.value
          THEN Done(f, [success |-> FALSE,
                        error |-> Text("file does not exist: ", PathArg(file_path))])
        ELSE
          LET rd == Path_read_text(f, k, encoding)
          IN  IF ~rd.ok THEN Done(f, Failure("read failed: ", rd.err))
              ELSE Done(f, [success |-> TRUE,
                            data |-> [content |-> rd.chars, path |-> file_path,
                                      size |-> Len(f[k].data)],
                            message |-> Text("", CharsArg(rd.chars))])

write_file(f, file_path, content, encoding) ==
  IF file_path.form = "notstr" THEN Done(f, Failure("write failed: ", PathTypeError))
  ELSE
    LET k == file_path.depth
        mk == Path_mkdir(f, k - 1)
    IN  IF ~mk.ok THEN Done(mk.fs, Failure("write failed: ", mk.err))
        ELSE
          LET wr == Path_write_text(mk.fs, k, content, encoding)
          IN  IF ~wr.ok THEN Done(wr.fs, Failure("write failed: ", wr.err))
              ELSE
                LET size == EncodedLen(content, encoding)
                IN  IF ~size.ok THEN Done(wr.fs, Failure("write failed: ", size.err))
                    ELSE Done(wr.fs, [success |-> TRUE,
                                      data |-> [path |-> file_path, size |-> size.n],
                                      message |-> Text("file written: ", PathArg(file_path))])

\* A create that refuses a path that is already there.
create_file_Exclusive(f, file_path, content, encoding) ==
  IF file_path.form # "notstr" /\ Stat(f, file_path.depth) = "ok"
    THEN [fs |-> f,
          result |-> [success |-> FALSE,
                      error |-> Text("create failed: ", StrArg("[Errno 17] File exists"))]]
    ELSE write_file(f, file_path, content, encoding)

create_file(f, file_path, content, encoding) ==
  IF file_path.form = "notstr" THEN Done(f, Failure("create failed: ", PathTypeError))
  ELSE
    LET k == file_path.depth
        mk == Path_mkdir(f, k - 1)
    IN  IF ~mk.ok THEN Done(mk.fs, Failure("create failed: ", mk.err))
        ELSE
          LET wr == Path_write_text(mk.fs, k, content, encoding)
          IN  IF ~wr.ok THEN Done(wr.fs, Failure("create failed: ", wr.err))
              ELSE
                LET size == EncodedLen(content, encoding)
                IN  IF ~size.ok THEN Done(wr.fs, Failure("create failed: ", size.err))
                    ELSE Done(wr.fs, [success |-> TRUE,
                                      data |-> [path |-> file_path, size |-> size.n],
                                      message |-> Text("file created: ", PathArg(file_path))])

delete_file(f, file_path, rt) ==
  IF file_path.form = "notstr" THEN Done(f, Failure("delete failed: ", PathTypeError))
  ELSE
    LET k == file_path.depth
        ex == Path_exists(f, k, rt)
    IN  IF ex.raised THEN Done(f, Failure("delete failed: ", ex.err))
        ELSE IF ~ex.value
          THEN Done(f, [success |-> FALSE,
                        error |-> Text("file does not exist: ", PathArg(file_path))])
        ELSE
          LET un == Path_unlink(f, k)
          IN  IF ~un.ok THEN Done(f, Failure("delete failed: ", un.err))
              ELSE Done(un.fs, [success |-> TRUE,
                                message |-> Text("file deleted: ", PathArg(file_path))])

exists_file(f, file_path, rt) ==
  IF file_path.form = "notstr" THEN Done(f, Failure("check failed: ", PathTypeError))
  ELSE
    LET ex == Path_exists(f, file_path.depth, rt)
    IN  IF ex.raised THEN Done(f, Failure("check failed: ", ex.err))
        ELSE Done(f, [success |-> TRUE,
                      data |-> [exists |-> ex.value],
                      message |-> Text(IF ex.value THEN "file exists: "
                                                   ELSE "file does not exist: ",
                                       PathArg(file_path))])

(***************************************************************************)
(* The file skill: main                                                    *)
(***************************************************************************)

\* dict.get(key, default) of a key whose value is v, or is not there.
Get(v, absent, default) == IF v = absent THEN default ELSE v

\* Python's "not x" for the action and path parameters.
NotAction(action) == action \in {None, ""}
NotPath(file_path) == file_path.form \in {"none", "empty"}

\* A strict UTF-8 standard output can encode json.dumps(result, ensure_ascii=False).
Printable(result) ==
  /\ "error" \in DOMAIN result => PrintableArg(result.error.arg)
  /\ "message" \in DOMAIN result => PrintableArg(result.message.arg)
  /\ ("data" \in DOMAIN result /\ "path" \in DOMAIN result.data)
       => result.data.path.form # "escaped"

\* Where control is after a piece of code: it returned, or it raised.
Flow(f, printed, ctl, exc) == [fs |-> f, out |-> printed, ctl |-> ctl, exc |-> exc]

\* output_error of the file skill: print the envelope, then sys.exit(1).
file_output_error(f, printed, message) ==
  Flow(f, Append(printed, [success |-> FALSE, error |-> message]), "SystemExit", NoExc)

\* print(json.dumps(result, ensure_ascii=False))
PrintResult(f, printed, result) ==
  IF Printable(result)
    THEN Flow(f, Append(printed, result), "return", NoExc)
    ELSE Flow(f, printed, "Exception",
              Str("'utf-8' codec can't encode: surrogates not allowed"))

\* A dispatch whose last branch reads the file instead of refusing the action.
Dispatch_DefaultRead(f, action, file_path, content, encoding, rt) ==
  IF action = "write" THEN write_file(f, file_path, content, encoding)
  ELSE IF action = "create" THEN create_file(f, file_path, content, encoding)
  ELSE IF action = "delete" THEN delete_file(f, file_path, rt)
  ELSE IF action = "exists" THEN exists_file(f, file_path, rt)
  ELSE read_file(f, file_path, encoding, rt)

\* The operation an action names, or the result for an unknown action.
Dispatch(f, action, file_path, content, encoding, rt) ==
  IF action = "read" THEN read_file(f, file_path, encoding, rt)
  ELSE IF action = "write" THEN write_file(f, file_path, content, encoding)
  ELSE IF action = "create" THEN create_file(f, file_path, content, encoding)
  ELSE IF action = "delete" THEN delete_file(f, file_path, rt)
  ELSE IF action = "exists" THEN exists_file(f, file_path, rt)
  ELSE Done(f, [success |-> FALSE, error |-> Text("unknown action: ", StrArg(action))])

\* The try block of main.
file_main_try(f, inp) ==
  IF inp.source = "stdin" /\ inp.raw = "empty"
    THEN file_output_error(f, <<>>, Text("no input parameters", StrArg("")))
  ELSE IF inp.raw \in {"empty", "malformed"}
    THEN Flow(f, <<>>, "Exception", Str("Expecting value: line 1 column 1 (char 0)"))
  ELSE IF inp.raw = "nonobject"
    THEN Flow(f, <<>>, "Exception", Str("'list' object has no attribute 'get'"))
  ELSE
    LET action == inp.action
        file_path == inp.path
        content == Get(inp.content, NoContent, StrContent(<<>>))
        encoding == Get(inp.encoding, None, "utf-8")
    IN  IF NotAction(action)
          THEN file_output_error(f, <<>>, Text("missing action parameter", StrArg("")))
        ELSE IF NotPath(file_path)
          THEN file_output_error(f, <<>>, Text("missing path parameter", StrArg("")))
        ELSE
          LET op == Dispatch(f, action, file_path, content, encoding, inp.rt)
          IN  PrintResult(op.fs, <<>>, op.result)

\* A bare "except:", which catches SystemExit too.
CaughtByBareExcept(ctl) == ctl \in {"Exception", "SystemExit"}

\* The exceptions "except Exception" catches: SystemExit is not one of them.
CaughtByExceptException(ctl) == ctl = "Exception"

\* A process that ends with status 0 whatever happened: no sys.exit(1).
ExitStatus_AlwaysZero(ctl) == 0

\* The exit status of the process for the way main ended.
ExitStatus(ctl) == IF ctl = "return" THEN 0 ELSE 1

\* main of the file skill: the try block and its handler.
file_main(f, inp) ==
  LET body == file_main_try(f, inp)
  IN  IF CaughtByExceptException(body.ctl)
        THEN file_output_error(body.fs, body.out, body.exc)
        ELSE body

(***************************************************************************)
(* The search skill                                                        *)
(***************************************************************************)

\* The defaults of the count and offset parameters.
DefaultCount == 5
DefaultOffset == 0

\* A query parameter that is a JSON number, and one holding a lone surrogate.
IntQuery == "<int 7>"
SurrogateQuery == "q<U+D800>"

\* The items of web.results the API answers with: all fields, one field only,
\* and a title cut in the middle of a surrogate pair.
ApiItems ==
  { [title |-> "A", url |-> "http://a", description |-> "d"],
    [title |-> "B", url |-> None, description |-> None],
    [title |-> "<U+D83D>", url |-> "http://c", description |-> None] }

\* What urlopen meets: a 200 answer with a result list, a 200 answer whose JSON
\* has no "web" key, a 200 answer that is no JSON, an HTTP error status with
\* its body, or no answer at all.
NoResponse == [kind |-> "none", code |-> 0, body |-> "", results |-> <<>>]
Responses ==
  {[kind |-> "ok", code |-> 200, body |-> "", results |-> r] :
      r \in SeqsUpTo(ApiItems, MaxResults)}
  \cup {[kind |-> "noweb", code |-> 200, body |-> "", results |-> <<>>],
        [kind |-> "badjson", code |-> 200, body |-> "<html>", results |-> <<>>],
        [kind |-> "neterror", code |-> 0, body |-> "", results |-> <<>>]}
  \cup {[kind |-> "httperror", code |-> c, body |-> b, results |-> <<>>] :
          c \in {403, 500}, b \in {"", "forbidden"}}

\* parse_results: the three fields of every item, '' for a missing one.
parse_results(items) ==
  [i \in 1..Len(items) |->
     [title |-> Get(items[i].title, None, ""),
      url |-> Get(items[i].url, None, ""),
      description |-> Get(items[i].description, None, "")]]

\* Where control is in the search skill: what is printed, the requests sent.
SFlow(printed, net, ctl, exc, results) ==
  [out |-> printed, net |-> net, ctl |-> ctl, exc |-> exc, results |-> results]

\* search_brave: the request, and the result list or the exception.
search_brave(query, api_key, count, offset, response) ==
  IF query \in {IntQuery, SurrogateQuery}
    \* urllib.parse.quote raises before any request is made
    THEN SFlow(<<>>, <<>>, "Exception", Str("quote() could not encode the query"), <<>>)
  ELSE
    LET req == [q |-> query, count |-> count, offset |-> offset, token |-> api_key]
    IN  IF response.kind = "ok"
          THEN SFlow(<<>>, <<req>>, "return", NoExc, parse_results(response.results))
        ELSE IF response.kind = "noweb"
          THEN SFlow(<<>>, <<req>>, "return", NoExc, parse_results(<<>>))
        ELSE IF response.kind = "badjson"
          THEN SFlow(<<>>, <<req>>, "Exception",
                     Str("Expecting value: line 1 column 1 (char 0)"), <<>>)
        ELSE IF response.kind = "httperror"
          THEN SFlow(<<>>, <<req>>, "Exception",
                     Text("API error: ", HttpArg(response.code, response.body)), <<>>)
        ELSE SFlow(<<>>, <<req>>, "Exception", Str("<urlopen error timed out>"), <<>>)

\* output_error of the search skill: print the envelope and come back.
search_output_error(printed, error) ==
  Append(printed, [success |-> FALSE, error |-> error])

\* A strict UTF-8 standard output can encode the result list.
PrintableResults(results) ==
  \A i \in 1..Len(results) : results[i].title # "<U+D83D>"

\* output_success of the search skill.
output_success(flow, data, message) ==
  IF PrintableResults(data)
    THEN SFlow(Append(flow.out, [success |-> TRUE, data |-> [results |-> data],
                                 message |-> message]),
               flow.net, "return", NoExc, data)
    ELSE SFlow(flow.out, flow.net, "Exception",
               Str("'utf-8' codec can't encode: surrogates not allowed"), data)

\* A check of the credential that takes the empty string for a credential.
NotKey_NoneOnly(api_key) == api_key = None

\* Python's "not x" for the query parameter and for the credential.
NotQuery(query) == query \in {None, ""}
NotKey(api_key) == api_key \in {None, ""}

\* The try block of main.
search_main_try(inp) ==
  IF inp.env = "malformed"
    THEN SFlow(<<>>, <<>>, "Exception", Str("Expecting value: line 1 column 1 (char 0)"), <<>>)
  ELSE IF inp.env = "nonobject"
    THEN SFlow(<<>>, <<>>, "Exception", Str("'list' object has no attribute 'get'"), <<>>)
  ELSE
    LET query == IF inp.env = "unset" THEN None ELSE inp.query
        count == IF inp.env = "unset" THEN DefaultCount
                 ELSE Get(inp.count, -1, DefaultCount)
        offset == IF inp.env = "unset" THEN DefaultOffset
                  ELSE Get(inp.offset, -1, DefaultOffset)
    IN  IF NotQuery(query)
          THEN SFlow(search_output_error(<<>>, Text("please give a search query (query)",
                                                    StrArg(""))),
                     <<>>, "return", NoExc, <<>>)
        ELSE IF NotKey(inp.api_key)
          THEN SFlow(search_output_error(<<>>, Text("BRAVE_API_KEY is not set",
                                                    StrArg(""))),
                     <<>>, "return", NoExc, <<>>)
        ELSE
          LET got == search_brave(query, inp.api_key, count, offset, inp.response)
          IN  IF got.ctl # "return" THEN got
              ELSE output_success(got, got.results,
                                  Text("found {} results", NumArg(Len(got.results))))

\* main of the search skill: the try block, and the handler that prints the
\* exception and calls sys.exit(1).
search_main(inp) ==
  LET body == search_main_try(inp)
  IN  IF CaughtByExceptException(body.ctl)
        THEN SFlow(search_output_error(body.out, body.exc),
                   body.net, "SystemExit", NoExc, <<>>)
        ELSE body

(***************************************************************************)
(* The host: one process per invocation                                    *)
(***************************************************************************)

VARIABLES
  fs,        \* the filesystem of the host
  pc,        \* "idle": no skill process; "exited": one has run and ended
  skill,     \* the skill that ran: "file", "search", or "none"
  input,     \* what that process was given
  fsBefore,  \* the filesystem when that process started
  out,       \* the envelopes that process printed on standard output
  exitCode,  \* the exit status of that process
  netLog     \* the HTTP requests that process sent

vars == <<fs, pc, skill, input, fsBefore, out, exitCode, netLog>>

NoInput == [raw |-> "none"]

\* The filesystems a host can have: every well-formed chain.
InitialFilesystems == {f \in [Depths -> Entries] : WellFormed(f)}

Init ==
  /\ fs \in InitialFilesystems
  /\ pc = "idle"
  /\ skill = "none"
  /\ input = NoInput
  /\ fsBefore = fs
  /\ out = <<>>
  /\ exitCode = 0
  /\ netLog = <<>>

\* The values the parameters of the file skill are drawn from.
Sources == {"env", "stdin"}
FilePaths == {PathNode(k, form) : k \in Depths, form \in {"plain", "escaped"}}
               \cup {NotStrPath}
OperationNames == {"read", "write", "create", "delete", "exists"}
UnknownActions == {"frobnicate", SurrogateAction}
ContentValues == {StrContent(c) : c \in Contents} \cup {IntContent, NoContent}
EncodingValues == Encodings \cup {NullEncoding, None}

FileInput(source, raw, action, file_path, content, encoding, rt) ==
  [source |-> source, raw |-> raw, action |-> action, path |-> file_path,
   content |-> content, encoding |-> encoding, rt |-> rt]

\* The ways Path.exists can treat the lookup of the path in this filesystem.
VariantsFor(f, file_path) ==
  IF Stat(f, file_path.depth) = "EACCES" THEN LookupVariants ELSE {"raise"}

\* The inputs of the file skill.  A parameter the code never reads for the
\* action (content and encoding of a delete, say) is left out of the JSON.
FileInputs(f) ==
  {FileInput(s, raw, None, NonePath, NoContent, None, "raise") :
      s \in Sources, raw \in {"empty", "malformed", "nonobject"}}
  \cup {FileInput(s, "object", a, NonePath, NoContent, None, "raise") :
      s \in Sources, a \in {None, ""}}
  \cup {FileInput(s, "object", a, p, NoContent, None, "raise") :
      s \in Sources, a \in OperationNames \cup UnknownActions,
      p \in {NonePath, EmptyPath}}
  \cup UNION {{FileInput(s, "object", a, p, NoContent, None, rt) :
                 s \in Sources, a \in {"delete", "exists"} \cup UnknownActions,
                 rt \in VariantsFor(f, p)} : p \in FilePaths}
  \cup UNION {{FileInput(s, "object", "read", p, NoContent, e, rt) :
                 s \in Sources, e \in EncodingValues,
                 rt \in VariantsFor(f, p)} : p \in FilePaths}
  \cup {FileInput(s, "object", a, p, c, e, "raise") :
      s \in Sources, a \in {"write", "create"}, p \in FilePaths,
      c \in ContentValues, e \in EncodingValues}

\* The host runs the file skill: the whole of main, to the exit of the process.
RunFileSkill ==
  /\ pc = "idle"
  /\ \E inp \in FileInputs(fs) :
       LET end == file_main(fs, inp)
       IN  /\ fs' = end.fs
           /\ out' = end.out
           /\ exitCode' = ExitStatus(end.ctl)
           /\ input' = inp
  /\ skill' = "file"
  /\ fsBefore' = fs
  /\ netLog' = <<>>
  /\ pc' = "exited"

\* The values the parameters of the search skill are drawn from.
QueryValues == {None, "", "q", IntQuery, SurrogateQuery}
KeyValues == {None, "", "key"}
\* -1 stands for a count or an offset that is not given.
CountValues == {-1, 10}
OffsetValues == {-1, 20}

SearchInput(env, query, count, offset, api_key, response) ==
  [env |-> env, query |-> query, count |-> count, offset |-> offset,
   api_key |-> api_key, response |-> response]

\* The request reaches urlopen: only then is there an answer to choose.
ReachesNetwork(env, query, api_key) ==
  env = "object" /\ query = "q" /\ api_key = "key"

SearchInputs ==
  {SearchInput(env, None, -1, -1, k, NoResponse) :
      env \in {"unset", "malformed", "nonobject"}, k \in KeyValues}
  \cup UNION {{SearchInput("object", q, c, o, k, NoResponse) :
                 c \in CountValues, o \in OffsetValues,
                 k \in {x \in KeyValues : ~ReachesNetwork("object", q, x)}} :
              q \in QueryValues}
  \cup {SearchInput("object", "q", c, o, "key", r) :
      c \in CountValues, o \in OffsetValues, r \in Responses}

\* The host runs the search skill: the whole of main, to the exit of the process.
RunSearchSkill ==
  /\ pc = "idle"
  /\ \E inp \in SearchInputs :
       LET end == search_main(inp)
       IN  /\ out' = end.out
           /\ exitCode' = ExitStatus(end.ctl)
           /\ netLog' = end.net
           /\ input' = inp
  /\ skill' = "search"
  /\ fsBefore' = fs
  /\ UNCHANGED fs
  /\ pc' = "exited"

\* The process is gone; the host can start the next one.
NextInvocation ==
  /\ pc = "exited"
  /\ pc' = "idle"
  /\ skill' = "none"
  /\ input' = NoInput
  /\ fsBefore' = fs
  /\ out' = <<>>
  /\ exitCode' = 0
  /\ netLog' = <<>>
  /\ UNCHANGED fs

Next == RunFileSkill \/ RunSearchSkill \/ NextInvocation

Spec == Init /\ [][Next]_vars

(***************************************************************************)
(* What the claims speak of                                                *)
(***************************************************************************)

\* A process of the skill has run and ended.
Ran(sk) == pc = "exited" /\ skill = sk

\* The file skill got as far as the operation named a, on a path that is given.
Dispatched(a) ==
  /\ Ran("file")
  /\ input.raw = "object"
  /\ input.action = a
  /\ ~NotPath(input.path)

\* The path parameter is a string naming a place of the chain.
IsNodePath(file_path) == file_path.form \in {"plain", "escaped"}

\* The one envelope printed reports success, or failure.
Succeeded == Len(out) = 1 /\ out[1].success
Failed == Len(out) = 1 /\ ~out[1].success

\* The content and the encoding main hands to the operation.
GivenContent == Get(input.content, NoContent, StrContent(<<>>))

\* What a process of the file skill would print and leave, started now.
Following(a, file_path, encoding) ==
  file_main(fs, FileInput("env", "object", a, file_path, NoContent, encoding, "raise"))

\* The envelope has exactly the keys of a failure, and a non-empty error string.
IsFailureEnvelope(e) ==
  /\ DOMAIN e = {"success", "error"}
  /\ e.success = FALSE
  /\ NonEmptyText(e.error)

\* The envelope has the keys of a success: never an error.
IsSuccessEnvelope(e) ==
  /\ "success" \in DOMAIN e
  /\ e.success = TRUE
  /\ DOMAIN e \subseteq {"success", "data", "message"}

(***************************************************************************)
(* C1: write, then read                                                    *)
(***************************************************************************)

\* A write to a string path whose parent directory was not there reported success.
WroteBelowMissingParent ==
  /\ Dispatched("write")
  /\ IsNodePath(input.path)
  /\ input.path.depth >= 2
  /\ fsBefore[input.path.depth - 1].kind = "absent"
  /\ Succeeded

\* The read that follows the write, on the same path with the same encoding,
\* succeeds with the content that was written.
ReadsBack(chars) ==
  LET rd == Following("read", input.path, input.encoding)
  IN  /\ Len(rd.out) = 1
      /\ rd.out[1].success
      /\ rd.out[1].data.content = chars

\* C1: whenever a write below a missing parent directory reports success, the
\* directory tree and the file are there, and a following read of the same path
\* with the same encoding succeeds with exactly the content written, carriage
\* returns included.
C1_WriteReadRoundTrip ==
  WroteBelowMissingParent =>
    /\ \A j \in 1..(input.path.depth - 1) : fs[j] = Dir
    /\ fs[input.path.depth].kind = "file"
    /\ ReadsBack(GivenContent.chars)

\* The same round trip for the contents that hold no carriage return: this one
\* the code keeps.
C1_RoundTripWithoutCR ==
  (WroteBelowMissingParent /\ \A i \in 1..Len(GivenContent.chars) : GivenContent.chars[i] # "\r")
    => /\ \A j \in 1..(input.path.depth - 1) : fs[j] = Dir
       /\ fs[input.path.depth].kind = "file"
       /\ ReadsBack(GivenContent.chars)

C1_Witness ==
  /\ WroteBelowMissingParent
  /\ input.path.depth = MaxDepth
  /\ fsBefore[1].kind = "absent"
  /\ GivenContent.chars = <<"\n">>
  /\ ReadsBack(<<"\n">>)

(***************************************************************************)
(* C2: what a failed invocation leaves behind                              *)
(***************************************************************************)

\* C2 as stated, for the failures the operations themselves return (exit status
\* 0): an invocation of the file skill that prints a failure envelope leaves
\* the filesystem as it found it.
C2_FailureLeavesFilesystemUnchanged ==
  (Ran("file") /\ Failed /\ exitCode = 0) => fs = fsBefore

\* What a write or create that fails may have done at depth j, the target
\* being at depth k: made a missing ancestor a directory, or, the content being
\* a string, created, emptied or written the target file.
WriteTrace(j, k) ==
  \/ fs[j] = fsBefore[j]
  \/ j < k /\ fsBefore[j].kind = "absent" /\ fs[j] = Dir
  \/ /\ j = k
     /\ GivenContent.type = "str"
     /\ fsBefore[j].kind \in {"absent", "file"}
     /\ fs[j].kind = "file"

\* C2, amended: a failure envelope of read, exists, an unknown action or a
\* rejected input leaves the filesystem unchanged; so does a failure that
\* delete itself returns (exit status 0).  A failed write or create may leave
\* the parent directories it made and a created, emptied or written target; a
\* delete whose success envelope cannot be printed has removed the file.
C2_FailureEffects ==
  (Ran("file") /\ Failed) =>
    IF (Dispatched("write") \/ Dispatched("create")) /\ IsNodePath(input.path)
      THEN \A j \in Depths : WriteTrace(j, input.path.depth)
    ELSE IF Dispatched("delete") /\ fs # fsBefore
      THEN /\ exitCode # 0
           /\ input.path.form = "escaped"
           /\ fsBefore[input.path.depth].kind = "file"
           /\ fs = [fsBefore EXCEPT ![input.path.depth] = Absent]
    ELSE fs = fsBefore

\* A write of a string the codec cannot encode failed below a missing tree:
\* the directories are new and the target is an empty file.
C2_Witness ==
  /\ Dispatched("write")
  /\ Failed
  /\ exitCode = 0
  /\ input.path.depth = MaxDepth
  /\ fsBefore[1].kind = "absent"
  /\ fs[1] = Dir
  /\ fs[MaxDepth] = File(<<>>)

(***************************************************************************)
(* C3: the exit status of the search skill                                 *)
(***************************************************************************)

\* main of the search skill stopped at the check of the query, or of the
\* credential.
StoppedAtQuery == input.env \in {"unset", "object"} /\ input.query \in {None, ""}
StoppedAtKey ==
  /\ input.env = "object"
  /\ input.query \notin {None, ""}
  /\ input.api_key \in {None, ""}

\* The API answered the request with an HTTP error status.
GotHttpError == input.response.kind = "httperror"

\* An exception other than the one made of an HTTP error status: JSON that
\* does not parse or is no object, a query that cannot be quoted, no answer, an
\* answer that is no JSON, a result list standard output cannot encode.
OtherException ==
  \/ input.env \in {"malformed", "nonobject"}
  \/ /\ input.env = "object"
     /\ input.api_key = "key"
     /\ \/ input.query \in {IntQuery, SurrogateQuery}
        \/ input.response.kind \in {"badjson", "neterror"}
        \/ /\ input.response.kind = "ok"
           /\ \E i \in 1..Len(input.response.results) :
                input.response.results[i].title = "<U+D83D>"

\* C3 as stated: the search skill exits non-zero only on an exception other
\* than an HTTP error status; on a missing query, a missing credential and an
\* HTTP error status it prints the error envelope and exits with status 0.
C3_NonZeroOnlyOnOtherExceptions ==
  Ran("search") =>
    /\ exitCode # 0 => OtherException
    /\ (StoppedAtQuery \/ StoppedAtKey \/ GotHttpError) => (Failed /\ exitCode = 0)

\* C3, amended: the search skill exits non-zero exactly when an exception
\* reaches the handler of main, and the exception made of an HTTP error status
\* is one of them: its envelope carries the status code and the body, and the
\* exit status is 1.  On a missing query and a missing credential it prints
\* the error envelope and exits with status 0.
C3_ExitStatus ==
  Ran("search") =>
    /\ exitCode # 0 <=> (OtherException \/ GotHttpError)
    /\ (StoppedAtQuery \/ StoppedAtKey) => (Failed /\ exitCode = 0)
    /\ GotHttpError =>
         /\ Failed
         /\ exitCode = 1
         /\ out[1].error = Text("API error: ",
                                HttpArg(input.response.code, input.response.body))

C3_Witness ==
  /\ Ran("search")
  /\ GotHttpError
  /\ input.response.code = 403
  /\ input.response.body = "forbidden"
  /\ exitCode = 1
  /\ Len(netLog) = 1

(***************************************************************************)
(* C4: an unknown action                                                   *)
(***************************************************************************)

\* The file skill was given an action that is a string and no operation.
GivenUnknownAction ==
  /\ Ran("file")
  /\ input.raw = "object"
  /\ input.action \in UnknownActions

\* The failure envelope naming the action is printed, nothing is touched, and
\* the process exits with status 0.
UnknownActionReported ==
  /\ out = <<[success |-> FALSE,
              error |-> Text("unknown action: ", StrArg(input.action))]>>
  /\ fs = fsBefore
  /\ exitCode = 0

\* C4 as stated: for every unknown action and all values of the other
\* parameters, the failure envelope names the action, no filesystem operation
\* is performed and the exit status is 0.
C4_UnknownActionAnyParameters == GivenUnknownAction => UnknownActionReported

\* C4, amended: the same, for an unknown action that standard output can encode
\* and a path parameter that is given and not empty.
C4_UnknownAction ==
  (GivenUnknownAction /\ input.action # SurrogateAction /\ ~NotPath(input.path))
    => UnknownActionReported

C4_Witness ==
  /\ GivenUnknownAction
  /\ input.action = "frobnicate"
  /\ input.path = PathNode(1, "escaped")
  /\ fsBefore[1].kind = "file"
  /\ UnknownActionReported

(***************************************************************************)
(* C5: no request without a query and a credential                         *)
(***************************************************************************)

\* C5: the search skill sends a request only if the query is given and not
\* empty and the credential is set and not empty; without either it prints
\* exactly one failure envelope with a non-empty error and sends nothing.
C5_NoRequestWithoutInputs ==
  Ran("search") =>
    /\ Len(netLog) <= 1
    /\ netLog # <<>> =>
         /\ input.env = "object"
         /\ input.query \notin {None, ""}
         /\ input.api_key \notin {None, ""}
    /\ (input.env # "object" \/ input.query \in {None, ""} \/ input.api_key \in {None, ""})
         => /\ netLog = <<>>
            /\ Len(out) = 1
            /\ IsFailureEnvelope(out[1])

\* The credential is set to the empty string, the query is fine: no request.
C5_Witness ==
  /\ Ran("search")
  /\ input.env = "object"
  /\ input.query = "q"
  /\ input.api_key = ""
  /\ netLog = <<>>
  /\ Failed
  /\ exitCode = 0

(***************************************************************************)
(* C6: exists                                                              *)
(***************************************************************************)

\* The success envelope of exists says whether the path is there.
ExistsAnswersTruly ==
  /\ Succeeded
  /\ out[1].data.exists = TrulyExists(fsBefore, input.path.depth)

\* C6 as stated: for every path string and every filesystem, a directory
\* that denies the lookup included, exists prints a success envelope whose
\* data.exists is the true state of the path.
C6_ExistsAlwaysSucceeds ==
  (Dispatched("exists") /\ input.path.form = "plain") => ExistsAnswersTruly

\* C6, amended: the same, for the path strings standard output can encode and
\* the filesystems where no directory on the way denies the lookup.
C6_ExistsWhereLookupAllowed ==
  (/\ Dispatched("exists")
   /\ input.path.form = "plain"
   /\ Stat(fsBefore, input.path.depth) # "EACCES")
    => ExistsAnswersTruly

\* exists on a path below a regular file: success, and exists is false.
C6_Witness ==
  /\ Dispatched("exists")
  /\ input.path = PathNode(2, "plain")
  /\ fsBefore[1].kind = "file"
  /\ ExistsAnswersTruly
  /\ out[1].data.exists = FALSE

(***************************************************************************)
(* C7: delete, then exists                                                 *)
(***************************************************************************)

\* An exists on the path just deleted, spelled plainly, reports that it is gone.
FollowingExistsSaysGone ==
  LET ex == Following("exists", PathNode(input.path.depth, "plain"), None)
  IN  /\ Len(ex.out) = 1
      /\ ex.out[1].success
      /\ ex.out[1].data.exists = FALSE

\* C7 as stated: delete on a path that is not there fails and changes nothing;
\* delete on a path that is there, whatever it is, succeeds and removes it, and
\* a following exists reports false.
C7_DeleteRemovesWhateverExists ==
  (Dispatched("delete") /\ input.path.form = "plain") =>
    IF ~TrulyExists(fsBefore, input.path.depth)
      THEN Failed /\ fs = fsBefore
      ELSE /\ Succeeded
           /\ fs[input.path.depth] = Absent
           /\ FollowingExistsSaysGone

\* C7, amended: delete on a path that is not there fails and changes nothing;
\* delete on a regular file the lookup finds removes it, so that a following
\* exists reports false, and reports success when standard output can encode
\* the path; delete on a directory, or below a directory that denies the
\* lookup, fails and changes nothing.
C7_DeleteThenExists ==
  (Dispatched("delete") /\ IsNodePath(input.path)) =>
    LET k == input.path.depth
    IN  IF fsBefore[k].kind = "file" /\ Stat(fsBefore, k) = "ok"
          THEN /\ fs = [fsBefore EXCEPT ![k] = Absent]
               /\ FollowingExistsSaysGone
               /\ input.path.form = "plain" => (Succeeded /\ exitCode = 0)
          ELSE Failed /\ fs = fsBefore

C7_Witness ==
  /\ Dispatched("delete")
  /\ input.path = PathNode(MaxDepth, "plain")
  /\ fsBefore[MaxDepth].kind = "file"
  /\ Succeeded
  /\ fs[MaxDepth] = Absent
  /\ FollowingExistsSaysGone

(***************************************************************************)
(* C8: one envelope per invocation                                         *)
(***************************************************************************)

\* C8: a process of either skill has printed exactly one envelope when it ends.
C8_ExactlyOneEnvelope == pc = "exited" => Len(out) = 1

\* The file skill read an empty standard input: output_error printed and
\* exited inside the try block, and the handler printed nothing more.
C8_Witness ==
  /\ Ran("file")
  /\ input.source = "stdin"
  /\ input.raw = "empty"
  /\ Len(out) = 1
  /\ exitCode = 1

(***************************************************************************)
(* C9: the shape of an envelope                                            *)
(***************************************************************************)

\* C9: every envelope printed has a boolean success; one that reports failure
\* has a non-empty error and neither data nor message, one that reports
\* success has no error.
C9_EnvelopeShape ==
  \A i \in 1..Len(out) : IsFailureEnvelope(out[i]) \/ IsSuccessEnvelope(out[i])

\* The handler of the file skill printed the text of an exception.
C9_Witness ==
  /\ Ran("file")
  /\ input.raw = "nonobject"
  /\ Len(out) = 1
  /\ IsFailureEnvelope(out[1])
  /\ out[1].error.fmt = ""

(***************************************************************************)
(* C10: write and create                                                   *)
(***************************************************************************)

\* The process that would have run, had the action been the other of the two.
OtherOfWriteCreate ==
  file_main(fsBefore,
            [input EXCEPT !.action = IF input.action = "write" THEN "create"
                                                                 ELSE "write"])

\* C10: write and create, on the same input and the same filesystem, leave the
\* same filesystem and report the same success flag, the same data and the
\* same exit status.
C10_WriteCreateEquivalent ==
  (Dispatched("write") \/ Dispatched("create")) =>
    LET alt == OtherOfWriteCreate
    IN  /\ alt.fs = fs
        /\ ExitStatus(alt.ctl) = exitCode
        /\ Len(alt.out) = Len(out)
        /\ \A i \in 1..Len(out) :
             /\ alt.out[i].success = out[i].success
             /\ ("data" \in DOMAIN alt.out[i]) <=> ("data" \in DOMAIN out[i])
             /\ "data" \in DOMAIN out[i] => alt.out[i].data = out[i].data

\* create overwrote a file that was there with other content.
C10_Witness ==
  /\ Dispatched("create")
  /\ IsNodePath(input.path)
  /\ Succeeded
  /\ fsBefore[input.path.depth].kind = "file"
  /\ fsBefore[input.path.depth].data # <<>>
  /\ fs[input.path.depth].data = <<13, 10>>
  /\ out[1].data.size = 2

====
